---- MODULE Spec2Model ----
(***************************************************************************)
(* Phase-gated specification workflow of cc-sdd-mcp.                       *)
(*                                                                         *)
(* The persisted state is the project's .kiro tree: one directory per      *)
(* feature under .kiro/specs (metadata.json plus requirements.md,          *)
(* design.md, tasks.md), the steering documents under .kiro/steering, and  *)
(* the bundled template directory.  Every tool handler is one action.      *)
(* Strings the code inspects character by character (feature names,        *)
(* steering content) are sequences of one-character strings.               *)
(***************************************************************************)
EXTENDS Integers, Sequences, FiniteSets, TLC

VARIABLES specs, steering, templates, now, last, prev, inflight, env

vars == <<specs, steering, templates, now, last, prev, inflight, env>>

(***************************************************************************)
(* Bounds of the model.                                                    *)
(***************************************************************************)
\* datetime.now() is read from a clock that never goes back; it is capped.
MaxClock == 1
\* Number of clock ticks in one calendar day (strftime("%Y-%m-%d")).
TicksPerDay == 2

(***************************************************************************)
(* Strings.                                                                *)
(***************************************************************************)
None == "<none>"

\* str.lower() on one character
LowerChar(c) ==
  CASE c = "A" -> "a"
    [] c = "B" -> "b"
    [] c = "C" -> "c"
    [] OTHER -> c

\* str.lower()
Lower(s) == [i \in 1..Len(s) |-> LowerChar(s[i])]

\* str.replace(old, new) for one-character old and new
Replace(s, old, new) == [i \in 1..Len(s) |-> IF s[i] = old THEN new ELSE s[i]]

IsSpace(c) == c = " "

RECURSIVE LStrip(_)
LStrip(s) == IF s # <<>> /\ IsSpace(Head(s)) THEN LStrip(Tail(s)) ELSE s

RECURSIVE RStrip(_)
RStrip(s) ==
  IF s # <<>> /\ IsSpace(s[Len(s)]) THEN RStrip(SubSeq(s, 1, Len(s) - 1)) ELSE s

\* str.strip()
Strip(s) == RStrip(LStrip(s))

\* Python truthiness of a str
Truthy(s) == s # <<>>

(***************************************************************************)
(* The working directory (utils/paths.py).  A directory is the sequence of *)
(* its path components; env holds the server's current directory and the   *)
(* directories that contain a project indicator (.git, .kiro,              *)
(* pyproject.toml, ...).                                                   *)
(***************************************************************************)
FsRoot == << >>

\* Path.parent: the filesystem root is its own parent
Parent(d) == IF d = FsRoot THEN FsRoot ELSE SubSeq(d, 1, Len(d) - 1)

Dirs == { FsRoot, <<"p">>, <<"p", "s">> }

\* no project root found
NoRoot == << "<no root>" >>

\* the project_dir / project_path argument was not passed
Omitted == << "<omitted>" >>

\* find_project_root: the loop ends at the filesystem root without looking
\* for an indicator in it
RECURSIVE find_project_root(_, _)
find_project_root(current, marked) ==
  IF current = Parent(current) THEN NoRoot
  ELSE IF current \in marked THEN current
  ELSE find_project_root(Parent(current), marked)

\* get_project_path_from_args
get_project_path_from_args(project_path, e) ==
  IF project_path # Omitted THEN project_path
  ELSE IF find_project_root(e.cwd, e.marked) # NoRoot
  THEN find_project_root(e.cwd, e.marked)
  ELSE e.cwd

\* Path(arguments.get("project_dir", ".")): the current directory
project_dir_from_args(project_dir, e) ==
  IF project_dir # Omitted THEN project_dir ELSE e.cwd

\* the server runs in the project root, which holds an indicator
AtProjectRoot == [cwd |-> <<"p">>, marked |-> { <<"p">> }]

(***************************************************************************)
(* Feature names and descriptions the callers pass.                        *)
(***************************************************************************)
\* names init accepts: one already in normal form, one that is not
Names == { <<"b", "-", "c">>, <<"B", " ", "c">> }

\* names init rejects
BadNames == { <<>>, <<" ">> }

RawNames == Names \cup BadNames

Descriptions == { <<"d">>, <<"e">> }

\* what validate_feature_name yields when it raises ValueError
InvalidName == << "ValueError" >>

\* SpecificationMetadata.validate_feature_name
validate_feature_name(v) ==
  IF ~Truthy(v) \/ ~Truthy(Strip(v)) THEN InvalidName
  ELSE Replace(Lower(Strip(v)), " ", "-")

\* utils/paths.py normalize_feature_name: underscores become hyphens too; no
\* tool handler calls it
normalize_feature_name(feature_name) ==
  Replace(Replace(Lower(Strip(feature_name)), " ", "-"), "_", "-")

\* every directory name under .kiro/specs a handler can address
DirNames == (RawNames \cup { validate_feature_name(n) : n \in RawNames }) \ {InvalidName}

(***************************************************************************)
(* SpecPhase: the enum members in declaration order; a member is its       *)
(* position, its .value the string that is persisted and reported.         *)
(***************************************************************************)
PhaseValue ==
  << "initialized", "requirements", "design", "tasks", "implementation", "completed" >>

INITIALIZED == 1
REQUIREMENTS == 2
DESIGN == 3
TASKS == 4
IMPLEMENTATION == 5
COMPLETED == 6

Phases == 1..Len(PhaseValue)

\* SpecPhase(value): the member with that value
SpecPhase(v) == CHOOSE p \in Phases : PhaseValue[p] = v

ArtifactNames == { "requirements", "design", "tasks" }

\* the phase a generation operation produces
PhaseOf(x) ==
  CASE x = "requirements" -> REQUIREMENTS
    [] x = "design" -> DESIGN
    [] x = "tasks" -> TASKS

(***************************************************************************)
(* Files.  A file is a record; AbsentFile is a path at which nothing       *)
(* exists.                                                                 *)
(***************************************************************************)
AbsentFile == [kind |-> "absent"]

Exists(f) == f # AbsentFile

\* a directory of .kiro/specs that was never created
NoDir == [exists |-> FALSE, metadata |-> AbsentFile,
          files |-> [x \in ArtifactNames |-> AbsentFile]]

(***************************************************************************)
(* metadata.json                                                           *)
(***************************************************************************)
\* SpecificationMetadata.model_dump_json: enum members are written as their
\* values
model_dump_json(m) ==
  [kind |-> "json",
   feature_name |-> m.feature_name,
   description |-> m.description,
   current_phase |-> PhaseValue[m.current_phase],
   created_at |-> m.created_at,
   updated_at |-> m.updated_at,
   approved_phases |->
     [i \in 1..Len(m.approved_phases) |-> PhaseValue[m.approved_phases[i]]]]

\* SpecificationMetadata(**json.loads(text)): the validator runs again on
\* feature_name and the phase strings become enum members
ParseMetadata(j) ==
  [feature_name |-> validate_feature_name(j.feature_name),
   description |-> j.description,
   current_phase |-> SpecPhase(j.current_phase),
   created_at |-> j.created_at,
   updated_at |-> j.updated_at,
   approved_phases |->
     [i \in 1..Len(j.approved_phases) |-> SpecPhase(j.approved_phases[i])]]

\* the components of a path text, split at "/"
RECURSIVE Components(_)
Components(s) ==
  IF s = << >> THEN << << >> >>
  ELSE LET rest == Components(Tail(s)) IN
       IF Head(s) = "/" THEN << << >> >> \o rest
       ELSE << << Head(s) >> \o Head(rest) >> \o Tail(rest)

RECURSIVE Join(_)
Join(cs) ==
  IF cs = << >> THEN << >>
  ELSE Head(cs) \o (IF Tail(cs) = << >> THEN << >> ELSE << "/" >> \o Join(Tail(cs)))

\* the directory Path(".kiro/specs") / name denotes: pathlib drops empty and
\* "." components of name when it joins; the directories of .kiro/specs are
\* known by the path that is left
SpecsPath(name) ==
  IF \A i \in DOMAIN name : name[i] \notin { "/", "." } THEN name
  ELSE Join(SelectSeq(Components(name), LAMBDA c : c # << >> /\ c # << "." >>))

\* SpecWorkflow._get_spec_dir: the name is joined to the path as given
_get_spec_dir(feature_name) == SpecsPath(feature_name)

\* a missing metadata.json read as an empty text
LoadError_MissingReadAsEmpty(fs, feature_name) ==
  LET f == fs[_get_spec_dir(feature_name)].metadata IN
  IF ~Exists(f) \/ f.kind # "json" THEN "JSONDecodeError" ELSE None

\* SpecWorkflow._load_metadata: the exception it raises, or None
LoadError(fs, feature_name) ==
  LET f == fs[_get_spec_dir(feature_name)].metadata IN
  IF ~Exists(f) THEN "FileNotFoundError"
  ELSE IF f.kind # "json" THEN "JSONDecodeError"
  ELSE None

\* SpecWorkflow._load_metadata: the value it returns when it does not raise
_load_metadata(fs, feature_name) ==
  ParseMetadata(fs[_get_spec_dir(feature_name)].metadata)

\* a save that stamps created_at as well
_save_metadata_StampsCreated(fs, m, t) ==
  LET d == _get_spec_dir(m.feature_name)
      m2 == [m EXCEPT !.updated_at = t, !.created_at = t]
  IN [fs EXCEPT ![d].metadata = model_dump_json(m2)]

\* SpecWorkflow._save_metadata: refreshes updated_at and replaces
\* metadata.json in the directory named by the metadata's own feature_name
_save_metadata(fs, m, t) ==
  LET d == _get_spec_dir(m.feature_name)
      m2 == [m EXCEPT !.updated_at = t]
  IN [fs EXCEPT ![d].metadata = model_dump_json(m2)]

\* list membership and append as generate_* use them
InList(p, l) == \E i \in 1..Len(l) : l[i] = p

AsSet(l) == { l[i] : i \in 1..Len(l) }

(***************************************************************************)
(* Templates (utils/templates.py).  The bundled template directory holds,  *)
(* per spec type, at most a language-suffixed file and an unsuffixed one.  *)
(***************************************************************************)
Languages == { "en" }

\* the file name suffixes _get_template_path probes; "" is {name}.md
Suffixes == Languages \cup { "" }

TemplateFiles == ArtifactNames \X Suffixes

\* template texts: an empty file, a text with an unterminated Jinja tag, a
\* text with placeholders and a text without
EmptyText == ""
MalformedText == "{{ UNCLOSED_TAG"
VarsText == "{{NAME}} {{STATUS}}"
PlainText == "# Plain"

TemplateTexts == { EmptyText, MalformedText, VarsText, PlainText }

TextFile(body) == [kind |-> "text", body |-> body]

\* TemplateLoader._get_template_path: the first existing file, or NoPath
NoPath == << >>

_get_template_path_UnsuffixedFirst(tf, filename, language) ==
  IF Exists(tf[<<filename, "">>]) THEN <<filename, "">>
  ELSE IF Exists(tf[<<filename, language>>]) THEN <<filename, language>>
  ELSE IF Exists(tf[<<filename, "en">>]) THEN <<filename, "en">>
  ELSE NoPath

_get_template_path(tf, filename, language) ==
  IF Exists(tf[<<filename, language>>]) THEN <<filename, language>>
  ELSE IF Exists(tf[<<filename, "en">>]) THEN <<filename, "en">>
  ELSE IF Exists(tf[<<filename, "">>]) THEN <<filename, "">>
  ELSE NoPath

\* TemplateLoader._get_default_spec_template: the built-in text
_get_default_spec_template(spec_type) ==
  IF spec_type \in ArtifactNames THEN "# Default: " \o spec_type
  ELSE "# Title"

\* TemplateLoader.load_spec_template with the loader's default language
load_spec_template(tf, spec_type) ==
  LET template_path == _get_template_path(tf, spec_type, "en") IN
  IF template_path # NoPath THEN tf[template_path].body
  ELSE _get_default_spec_template(spec_type)

\* a Template that accepts any text
RenderFails_Never(template) == FALSE

\* Template(text) raises on a syntax error
RenderFails(template) == template = MalformedText

\* lookup of a placeholder: Jinja renders an undefined name as nothing
Lookup(context, key) == IF key \in DOMAIN context THEN context[key] ELSE <<>>

\* TemplateLoader.render_jinja_template, for a text that renders
render_jinja_template(template, context) ==
  IF template = VarsText
  THEN [kind |-> "text", body |-> template,
        NAME |-> Lookup(context, "NAME"),
        STATUS |-> Lookup(context, "STATUS")]
  ELSE [kind |-> "text", body |-> template]

\* strftime("%Y-%m-%d") of a clock value
DateOf(t) == t \div TicksPerDay

\* SpecWorkflow._build_requirements_context: the keys that are not literals
_build_requirements_context(m, t) ==
  [STATUS |-> PhaseValue[m.current_phase], DATE |-> DateOf(t),
   NAME |-> m.feature_name, BUSINESS_PROBLEM |-> m.description]

\* SpecWorkflow._build_design_context
_build_design_context(m, t) ==
  [STATUS |-> PhaseValue[m.current_phase], DATE |-> DateOf(t),
   NAME |-> m.feature_name]

\* SpecWorkflow._build_tasks_context
_build_tasks_context(m, t) ==
  [STATUS |-> PhaseValue[m.current_phase], DATE |-> DateOf(t)]

BuildContext(x, m, t) ==
  CASE x = "requirements" -> _build_requirements_context(m, t)
    [] x = "design" -> _build_design_context(m, t)
    [] x = "tasks" -> _build_tasks_context(m, t)

(***************************************************************************)
(* Steering documents (utils/filesystem.py, models/steering.py).           *)
(***************************************************************************)
\* SteeringFileType values that name a default document
SteeringStems == { "product", "tech", "structure" }

\* file_name arguments
SteeringFileNames == { "", "product", "bogus" }

SteeringContents == { <<>>, <<" ">>, <<"x">> }

\* SteeringDocument.validate_content raises
ContentInvalid(v) == ~Truthy(v) \/ ~Truthy(Strip(v))

\* FileSystemManager.list_steering_documents raises a ValidationError when
\* the content of a document it reads does not validate
ListSteeringRaises(st) ==
  st.exists /\ \E f \in SteeringStems :
     Exists(st.files[f]) /\ ContentInvalid(st.files[f].body)

\* FileSystemManager.get_steering_status: the exception it raises, or None
SteeringStatusError(st) ==
  IF ListSteeringRaises(st) THEN "ValidationError" ELSE None

\* FileSystemManager.write_steering_document: the directory is ensured and
\* the file written before the SteeringDocument is built
write_steering_document(st, file_type, content) ==
  [exists |-> TRUE, files |-> [st.files EXCEPT ![file_type] = TextFile(content)]]

(***************************************************************************)
(* The whole bundled template directory: steering and spec templates, each *)
(* in its category directory, in the languages a loader can be given.      *)
(***************************************************************************)
SteeringCategory == "settings/steering"

SpecCategory == "shared/settings/templates/specs"

\* the languages a TemplateLoader is constructed with
LoaderLanguages == { "en", "ja" }

LoaderSuffixes == LoaderLanguages \cup { "" }

\* a template name that is neither a steering document nor a spec type
UnknownName == "bogus"

TemplateNames == SteeringStems \cup ArtifactNames \cup { UnknownName }

BundledFiles == { SteeringCategory, SpecCategory } \X TemplateNames \X LoaderSuffixes

\* the files of one category directory, by file name and suffix
CategoryDir(td, category) ==
  [f \in TemplateNames \X LoaderSuffixes |-> td[<<category, f[1], f[2]>>]]

\* TemplateLoader._get_default_steering_template: templates.get(name, title)
_get_default_steering_template(template_name) ==
  IF template_name \in SteeringStems THEN << "#", " ", "Context", template_name >>
  ELSE << "#", " ", template_name >>

\* TemplateLoader.load_steering_template of a loader for language
load_steering_template(td, language, template_name) ==
  LET tf == CategoryDir(td, SteeringCategory)
      template_path == _get_template_path(tf, template_name, language) IN
  IF template_path # NoPath THEN tf[template_path].body
  ELSE _get_default_steering_template(template_name)

\* TemplateLoader.load_spec_template of a loader for language: the file is
\* looked up by spec_type, template_name is not used
TemplateLoader_load_spec_template(td, language, template_name, spec_type) ==
  LET tf == CategoryDir(td, SpecCategory)
      template_path == _get_template_path(tf, spec_type, language) IN
  IF template_path # NoPath THEN tf[template_path].body
  ELSE _get_default_spec_template(spec_type)

(***************************************************************************)
(* Results.  A handler's result is the dict it returns, as a record with   *)
(* the same keys, or [raised |-> E] when it raises E.                      *)
(***************************************************************************)
Raise(e) == [raised |-> e]

Raised(out) == "raised" \in DOMAIN out

Succeeded(out) == "success" \in DOMAIN out /\ out.success

\* a returned dict with success = False
Failed(out) == "success" \in DOMAIN out /\ ~out.success

PhaseErrorText(x, m) == << "Cannot generate", x, "in phase:", PhaseValue[m.current_phase] >>

ApprovalErrorText(x) ==
  << PhaseValue[PhaseOf(x) - 1], "must be approved before generating", x >>

TemplateNotFoundText(x) == << x, "template not found" >>

RenderFailedText == << "Template rendering failed:" >>

\* the directory a call addresses: spec_init validates the name, the
\* workflow uses it as given
AddressedDir(op, feature_name) ==
  IF op = "spec_init" THEN SpecsPath(validate_feature_name(feature_name))
  ELSE _get_spec_dir(feature_name)

\* the metadata.json a call finds
FoundMetadata(op, feature_name) ==
  IF AddressedDir(op, feature_name) \in DirNames
  THEN specs[AddressedDir(op, feature_name)].metadata
  ELSE AbsentFile

\* the last call: the tool, its arguments, the metadata.json it found and
\* its result
Call(op, args, out) ==
  [op |-> op, args |-> args, out |-> out,
   pre |-> IF "feature_name" \in DOMAIN args THEN FoundMetadata(op, args.feature_name)
           ELSE AbsentFile]

\* what is remembered of the call before the last one: the tool and the
\* feature when it succeeded, nothing when it did not
Summary(c) ==
  IF c.op # "none" /\ "feature_name" \in DOMAIN c.args
     /\ (Succeeded(c.out) \/ "files" \in DOMAIN c.out)
  THEN [op |-> c.op, feature_name |-> c.args.feature_name]
  ELSE [op |-> "none"]

NoCall == [op |-> "none"]

(***************************************************************************)
(* spec_init (tools/specification.py)                                      *)
(***************************************************************************)
\* SpecificationMetadata(feature_name=..., description=...,
\* current_phase=INITIALIZED): both timestamps default to now, the list of
\* approved phases to []
NewMetadata(feature_name, description, t) ==
  [feature_name |-> validate_feature_name(feature_name),
   description |-> description,
   current_phase |-> INITIALIZED,
   created_at |-> t,
   updated_at |-> t,
   approved_phases |-> <<>>]

\* mkdir(parents=True, exist_ok=True), then metadata.json is written
InitWrite(fs, m) ==
  [fs EXCEPT ![SpecsPath(m.feature_name)].exists = TRUE,
             ![SpecsPath(m.feature_name)].metadata = model_dump_json(m)]

spec_init_result(feature_name, description) ==
  IF ~Truthy(feature_name) \/ ~Truthy(description) THEN Raise("ValueError")
  ELSE IF validate_feature_name(feature_name) = InvalidName THEN Raise("ValidationError")
  ELSE [success |-> TRUE,
        feature_name |-> validate_feature_name(feature_name),
        spec_dir |-> validate_feature_name(feature_name),
        current_phase |-> PhaseValue[INITIALIZED]]

spec_init_handler(feature_name, description) ==
  LET out == spec_init_result(feature_name, description) IN
  /\ specs' = IF Raised(out) THEN specs
              ELSE InitWrite(specs, NewMetadata(feature_name, description, now))
  /\ last' = Call("spec_init",
                  [feature_name |-> feature_name, description |-> description], out)
  /\ prev' = Summary(last)
  /\ UNCHANGED <<steering, templates, now, inflight, env>>

(***************************************************************************)
(* The three generation operations (workflows/spec_workflow.py).           *)
(***************************************************************************)
\* a window one phase too wide
AllowedPhases_Wide(x) == { PhaseOf(x) - 2, PhaseOf(x) - 1, PhaseOf(x) }

\* "if metadata.current_phase not in [...]": the list of each operation
AllowedPhases(x) ==
  CASE x = "requirements" -> { INITIALIZED, REQUIREMENTS }
    [] x = "design" -> { REQUIREMENTS, DESIGN }
    [] x = "tasks" -> { DESIGN, TASKS }

\* the check left out
ApprovalMissing_NoGate(x, m, auto_approve) == FALSE

\* the check keyed on the phase being generated instead of the one before
ApprovalMissing_WrongPhase(x, m, auto_approve) ==
  /\ x # "requirements"
  /\ ~InList(PhaseOf(x) - 1, m.approved_phases)
  /\ m.current_phase = PhaseOf(x)
  /\ ~auto_approve

\* the approval check of generate_design and generate_tasks;
\* generate_requirements has none
ApprovalMissing(x, m, auto_approve) ==
  CASE x = "requirements" -> FALSE
    [] x = "design" ->
         /\ ~InList(REQUIREMENTS, m.approved_phases)
         /\ m.current_phase = REQUIREMENTS
         /\ ~auto_approve
    [] x = "tasks" ->
         /\ ~InList(DESIGN, m.approved_phases)
         /\ m.current_phase = DESIGN
         /\ ~auto_approve

\* "Load steering context": only generate_requirements reads the steering
\* documents
SteeringError(x, st) ==
  IF x = "requirements" THEN SteeringStatusError(st) ELSE None

\* the generated phase appended under auto_approve even when already there
UpdateMetadata_AppendsAgain(x, m, auto_approve) ==
  [m EXCEPT !.current_phase = PhaseOf(x),
            !.approved_phases = IF auto_approve THEN Append(@, PhaseOf(x)) ELSE @]

\* the generated phase approved whether or not auto_approve was passed
UpdateMetadata_AlwaysApproves(x, m, auto_approve) ==
  [m EXCEPT !.current_phase = PhaseOf(x),
            !.approved_phases =
               IF ~InList(PhaseOf(x), @) THEN Append(@, PhaseOf(x)) ELSE @]

\* auto_approve approving the phase before as well
UpdateMetadata_Retroactive(x, m, auto_approve) ==
  [m EXCEPT !.current_phase = PhaseOf(x),
            !.approved_phases =
               IF auto_approve
               THEN (IF InList(PhaseOf(x) - 1, @) THEN @ ELSE Append(@, PhaseOf(x) - 1))
                      \o (IF InList(PhaseOf(x), @) THEN <<>> ELSE << PhaseOf(x) >>)
               ELSE @]

\* "Update metadata": the phase is set and, under auto_approve, appended to
\* approved_phases unless already there
UpdateMetadata(x, m, auto_approve) ==
  [m EXCEPT !.current_phase = PhaseOf(x),
            !.approved_phases =
               IF auto_approve /\ ~InList(PhaseOf(x), @)
               THEN Append(@, PhaseOf(x)) ELSE @]

\* the text written to the artifact file
Rendered(x, m, tf, t) ==
  render_jinja_template(load_spec_template(tf, x), BuildContext(x, m, t))

\* the artifact file not written
WriteArtifact_Skipped(fs, feature_name, x, content) == fs

\* "{x}_file.write_text(content)"
WriteArtifact(fs, feature_name, x, content) ==
  [fs EXCEPT ![_get_spec_dir(feature_name)].files[x] = content]

\* the result of generate_{x}: a raised exception or the returned dict
GenerateResult(x, fs, st, tf, feature_name, auto_approve) ==
  IF LoadError(fs, feature_name) # None THEN Raise(LoadError(fs, feature_name))
  ELSE
    LET m == _load_metadata(fs, feature_name) IN
    IF m.current_phase \notin AllowedPhases(x)
    THEN [success |-> FALSE, error |-> PhaseErrorText(x, m),
          current_phase |-> PhaseValue[m.current_phase]]
    ELSE IF ApprovalMissing(x, m, auto_approve)
    THEN [success |-> FALSE, error |-> ApprovalErrorText(x),
          current_phase |-> PhaseValue[m.current_phase],
          message |-> "or use auto_approve=true"]
    ELSE IF SteeringError(x, st) # None THEN Raise(SteeringError(x, st))
    ELSE IF load_spec_template(tf, x) = EmptyText
    THEN [success |-> FALSE, error |-> TemplateNotFoundText(x)]
    ELSE IF RenderFails(load_spec_template(tf, x))
    THEN [success |-> FALSE, error |-> RenderFailedText]
    ELSE [success |-> TRUE, feature_name |-> feature_name,
          file |-> << _get_spec_dir(feature_name), x >>,
          current_phase |-> PhaseValue[PhaseOf(x)],
          auto_approved |-> auto_approve]

\* the persisted state a successful generate_{x} leaves
GenerateWrite(x, fs, tf, t, feature_name, auto_approve) ==
  LET m == _load_metadata(fs, feature_name) IN
  _save_metadata(WriteArtifact(fs, feature_name, x, Rendered(x, m, tf, t)),
                 UpdateMetadata(x, m, auto_approve), t)

\* SpecWorkflow.generate_requirements / generate_design / generate_tasks
generate(x, feature_name, auto_approve) ==
  LET out == GenerateResult(x, specs, steering, templates, feature_name, auto_approve) IN
  /\ specs' = IF Succeeded(out)
              THEN GenerateWrite(x, specs, templates, now, feature_name, auto_approve)
              ELSE specs
  /\ last' = Call(x, [feature_name |-> feature_name, auto_approve |-> auto_approve], out)
  /\ prev' = Summary(last)
  /\ UNCHANGED <<steering, templates, now, inflight, env>>

\* "if not feature_name: raise ValueError" of the spec_* handlers
handler_rejects(op, args) ==
  /\ last' = Call(op, args, Raise("ValueError"))
  /\ prev' = Summary(last)
  /\ UNCHANGED <<specs, steering, templates, now, inflight, env>>

spec_requirements_handler(feature_name, auto_approve) ==
  IF ~Truthy(feature_name)
  THEN handler_rejects("requirements", [feature_name |-> feature_name,
                                            auto_approve |-> auto_approve])
  ELSE generate("requirements", feature_name, auto_approve)

spec_design_handler(feature_name, auto_approve) ==
  IF ~Truthy(feature_name)
  THEN handler_rejects("design", [feature_name |-> feature_name,
                                      auto_approve |-> auto_approve])
  ELSE generate("design", feature_name, auto_approve)

spec_tasks_handler(feature_name, auto_approve) ==
  IF ~Truthy(feature_name)
  THEN handler_rejects("tasks", [feature_name |-> feature_name,
                                     auto_approve |-> auto_approve])
  ELSE generate("tasks", feature_name, auto_approve)

(***************************************************************************)
(* spec_status                                                             *)
(***************************************************************************)
\* presence flags derived from the phase instead of the files
get_spec_status_FlagsFromPhase(fs, feature_name) ==
  IF LoadError(fs, feature_name) = "FileNotFoundError"
  THEN [error |-> << "Specification", feature_name, "not found" >>,
        feature_name |-> feature_name]
  ELSE IF LoadError(fs, feature_name) # None THEN Raise(LoadError(fs, feature_name))
  ELSE
    LET m == _load_metadata(fs, feature_name)
    IN [feature_name |-> m.feature_name,
        description |-> m.description,
        current_phase |-> PhaseValue[m.current_phase],
        approved_phases |->
          [i \in 1..Len(m.approved_phases) |-> PhaseValue[m.approved_phases[i]]],
        created_at |-> m.created_at,
        updated_at |-> m.updated_at,
        files |-> [x \in ArtifactNames |-> PhaseOf(x) <= m.current_phase],
        spec_dir |-> _get_spec_dir(feature_name)]

\* SpecWorkflow.get_spec_status: FileNotFoundError is caught, anything else
\* propagates
get_spec_status(fs, feature_name) ==
  IF LoadError(fs, feature_name) = "FileNotFoundError"
  THEN [error |-> << "Specification", feature_name, "not found" >>,
        feature_name |-> feature_name]
  ELSE IF LoadError(fs, feature_name) # None THEN Raise(LoadError(fs, feature_name))
  ELSE
    LET m == _load_metadata(fs, feature_name)
        d == fs[_get_spec_dir(feature_name)]
    IN [feature_name |-> m.feature_name,
        description |-> m.description,
        current_phase |-> PhaseValue[m.current_phase],
        approved_phases |->
          [i \in 1..Len(m.approved_phases) |-> PhaseValue[m.approved_phases[i]]],
        created_at |-> m.created_at,
        updated_at |-> m.updated_at,
        files |-> [x \in ArtifactNames |-> Exists(d.files[x])],
        spec_dir |-> _get_spec_dir(feature_name)]

spec_status_handler(feature_name) ==
  IF ~Truthy(feature_name)
  THEN handler_rejects("spec_status", [feature_name |-> feature_name])
  ELSE /\ last' = Call("spec_status", [feature_name |-> feature_name],
                       get_spec_status(specs, feature_name))
       /\ prev' = Summary(last)
       /\ UNCHANGED <<specs, steering, templates, now, inflight, env>>

(***************************************************************************)
(* Validation (workflows/validation_workflow.py, tools/validation.py).     *)
(* The project's src/ and tests/ directories are outside the .kiro tree:   *)
(* whether they exist is an input of each call.                            *)
(***************************************************************************)
\* ValidationIssue(severity=..., message=...)
ValidationIssue(severity, message) == [severity |-> severity, message |-> message]

\* the fields declared with Field(...) and no default in the result models,
\* beyond those of ValidationResult, which every call gives
RequiredFields(validation_type) ==
  CASE validation_type = "gap_analysis" -> { }
    [] validation_type = "design_validation" ->
         { "requirements_coverage", "design_completeness" }
    [] validation_type = "implementation_validation" ->
         { "tasks_completed", "tasks_total", "completion_percentage" }

\* construction of GapAnalysisResult / DesignValidationResult /
\* ImplementationValidationResult from keyword arguments: pydantic ignores
\* the keywords it does not know and raises when a required one is missing
ValidationResult(validation_type, feature_name, passed, issues, keywords) ==
  IF RequiredFields(validation_type) \subseteq keywords
  THEN [validation_type |-> validation_type, feature_name |-> feature_name,
        passed |-> passed, issues |-> issues]
  ELSE Raise("ValidationError")

\* "len([i for i in issues if i.severity == ValidationSeverity.ERROR]) == 0"
NoErrors(issues) == \A i \in 1..Len(issues) : issues[i].severity # "error"

\* the warnings of validate_gap and the issues of validate_implementation
\* about the project's directories
DirectoryIssues(src_severity, src_dir, tests_dir) ==
  (IF src_dir THEN <<>>
   ELSE << ValidationIssue(src_severity, "Source directory not found") >>)
  \o (IF tests_dir THEN <<>>
      ELSE << ValidationIssue("warning", "Tests directory not found") >>)

\* ValidationWorkflow.validate_gap
validate_gap(fs, feature_name, src_dir, tests_dir) ==
  IF LoadError(fs, feature_name) # None THEN Raise(LoadError(fs, feature_name))
  ELSE IF ~Exists(fs[_get_spec_dir(feature_name)].files["requirements"])
  THEN ValidationResult("gap_analysis", feature_name, FALSE,
         << ValidationIssue("error", "Requirements document not found") >>,
         { "existing_components", "missing_components" })
  ELSE LET issues == DirectoryIssues("warning", src_dir, tests_dir) IN
       ValidationResult("gap_analysis", feature_name, NoErrors(issues), issues,
         { "existing_implementations", "missing_requirements",
           "conflicting_implementations" })

\* design_checks: the elements whose words are found in no text of design.md
\* but the built-in design template
DesignElements == << "architecture", "components", "data_models", "api", "security" >>

MissingElements(design_content) ==
  IF design_content.body = _get_default_spec_template("design") THEN <<>>
  ELSE DesignElements

\* ValidationWorkflow.validate_design
validate_design(fs, feature_name) ==
  IF LoadError(fs, feature_name) # None THEN Raise(LoadError(fs, feature_name))
  ELSE
    LET d == fs[_get_spec_dir(feature_name)]
        missing ==
          (IF Exists(d.files["design"]) THEN <<>>
           ELSE << ValidationIssue("error", "Design document not found") >>)
          \o (IF Exists(d.files["requirements"]) THEN <<>>
              ELSE << ValidationIssue("error", "Requirements document not found") >>)
    IN IF missing # <<>>
       THEN ValidationResult("design_validation", feature_name, FALSE, missing,
              { "requirements_alignment", "missing_design_elements" })
       ELSE LET elements == MissingElements(d.files["design"])
                issues == [i \in 1..Len(elements) |->
                             ValidationIssue("warning",
                               << "Design may be missing", elements[i] >>)]
            IN ValidationResult("design_validation", feature_name,
                 NoErrors(issues), issues,
                 { "requirements_coverage", "missing_components",
                   "design_completeness" })

\* ValidationWorkflow.validate_implementation
validate_implementation(fs, feature_name, src_dir, tests_dir) ==
  IF LoadError(fs, feature_name) # None THEN Raise(LoadError(fs, feature_name))
  ELSE IF ~Exists(fs[_get_spec_dir(feature_name)].files["tasks"])
  THEN ValidationResult("implementation_validation", feature_name, FALSE,
         << ValidationIssue("error", "Tasks document not found") >>,
         { "completed_tasks", "incomplete_tasks" })
  ELSE LET issues == DirectoryIssues("error", src_dir, tests_dir) IN
       ValidationResult("implementation_validation", feature_name,
         NoErrors(issues), issues,
         { "tasks_completed", "tasks_total", "completion_percentage",
           "incomplete_tasks", "test_coverage" })

\* the validate_* handlers: "if not feature_name: raise ValueError", then
\* the workflow's result; nothing is written
validate_handler(op, feature_name, result) ==
  /\ last' = Call(op, [feature_name |-> feature_name],
                  IF ~Truthy(feature_name) THEN Raise("ValueError") ELSE result)
  /\ prev' = Summary(last)
  /\ UNCHANGED <<specs, steering, templates, now, inflight, env>>

validate_gap_handler(feature_name, src_dir, tests_dir) ==
  validate_handler("validate_gap", feature_name,
                   validate_gap(specs, feature_name, src_dir, tests_dir))

validate_design_handler(feature_name) ==
  validate_handler("validate_design", feature_name,
                   validate_design(specs, feature_name))

validate_impl_handler(feature_name, src_dir, tests_dir) ==
  validate_handler("validate_impl", feature_name,
                   validate_implementation(specs, feature_name, src_dir, tests_dir))

(***************************************************************************)
(* steering_update (tools/steering.py)                                     *)
(***************************************************************************)
\* the except ValueError branch also catches the ValidationError that
\* write_steering_document raises after it has written the file
steering_update_result(file_name, content) ==
  IF file_name = "" THEN [status |-> "error", message |-> "file_name is required"]
  ELSE IF ~Truthy(content) THEN [status |-> "error", message |-> "content is required"]
  ELSE IF file_name \notin SteeringStems
  THEN [status |-> "error", message |-> "Invalid file name"]
  ELSE IF ContentInvalid(content)
  THEN [status |-> "error", message |-> "Invalid file name"]
  ELSE [status |-> "success", file_path |-> file_name]

steering_update_handler(file_name, content) ==
  /\ steering' =
       IF Truthy(content) /\ file_name \in SteeringStems
       THEN write_steering_document(steering, file_name, content)
       ELSE steering
  /\ last' = Call("steering_update", [file_name |-> file_name, content |-> content],
                  steering_update_result(file_name, content))
  /\ prev' = Summary(last)
  /\ UNCHANGED <<specs, templates, now, inflight, env>>

(***************************************************************************)
(* steering_init, steering_status (tools/steering.py)                      *)
(***************************************************************************)
\* the default documents, in the order the handlers go through them
DefaultTypes == << "product", "tech", "structure" >>

\* one round of the loop of steering_init: r is the steering directory so
\* far, the files created and whether an earlier round raised.  The
\* template comes from a loader for "en": the handler passes its language
\* argument as the loader's project_dir.  write_steering_document writes
\* the file and then builds the SteeringDocument, whose validator raises.
InitDocument(r, td, file_type) ==
  LET template == load_steering_template(td, "en", file_type) IN
  IF r.raised \/ ~Truthy(template) THEN r
  ELSE [st |-> write_steering_document(r.st, file_type, template),
        created |-> Append(r.created, file_type),
        raised |-> ContentInvalid(template)]

\* the loop of steering_init, after ensure_steering_exists
InitDocuments(st, td) ==
  InitDocument(
    InitDocument(
      InitDocument([st |-> [st EXCEPT !.exists = TRUE], created |-> << >>, raised |-> FALSE],
                   td, DefaultTypes[1]),
      td, DefaultTypes[2]),
    td, DefaultTypes[3])

steering_init_result(r, language) ==
  IF r.raised THEN Raise("ValidationError")
  ELSE [status |-> "success", files_created |-> r.created, language |-> language]

steering_init_handler(language) ==
  /\ steering' = InitDocuments(steering, templates).st
  /\ last' = Call("steering_init", [language |-> language],
                  steering_init_result(InitDocuments(steering, templates), language))
  /\ prev' = Summary(last)
  /\ UNCHANGED <<specs, templates, now, inflight, env>>

\* missing_defaults: the default types no listed document has
RECURSIVE MissingDefaults(_, _)
MissingDefaults(st, types) ==
  IF types = << >> THEN << >>
  ELSE (IF st.exists /\ Exists(st.files[Head(types)]) THEN << >> ELSE << Head(types) >>)
         \o MissingDefaults(st, Tail(types))

\* steering_status_handler: the SteeringStatus it returns; listing the
\* documents raises when one of them does not validate
steering_status_result(st) ==
  IF ListSteeringRaises(st) THEN Raise("ValidationError")
  ELSE [exists |-> st.exists, missing_defaults |-> MissingDefaults(st, DefaultTypes)]

steering_status_handler ==
  /\ last' = Call("steering_status", [project_path |-> Omitted],
                  steering_status_result(steering))
  /\ prev' = Summary(last)
  /\ UNCHANGED <<specs, steering, templates, now, inflight, env>>

(***************************************************************************)
(* steering_read (tools/steering.py)                                       *)
(***************************************************************************)
\* with a file_name the except ValueError branch also catches the
\* ValidationError of a document that does not validate; without one the
\* listing raises it
steering_read_result(st, file_name) ==
  IF file_name # ""
  THEN IF file_name \notin SteeringStems
       THEN [status |-> "error", message |-> "Invalid file name"]
       ELSE IF ~Exists(st.files[file_name])
       THEN [status |-> "error", message |-> "not found"]
       ELSE IF ContentInvalid(st.files[file_name].body)
       THEN [status |-> "error", message |-> "Invalid file name"]
       ELSE [status |-> "success", file_type |-> file_name,
             content |-> st.files[file_name].body]
  ELSE IF ListSteeringRaises(st) THEN Raise("ValidationError")
  ELSE [status |-> "success",
        count |-> Cardinality({ f \in SteeringStems : Exists(st.files[f]) })]

steering_read_handler(file_name) ==
  /\ last' = Call("steering_read", [file_name |-> file_name],
                  steering_read_result(steering, file_name))
  /\ prev' = Summary(last)
  /\ UNCHANGED <<specs, steering, templates, now, inflight, env>>

(***************************************************************************)
(* Template tools (tools/templates.py) and direct use of a TemplateLoader. *)
(***************************************************************************)
\* template_type arguments: "steering", a spec type, and one that is neither
TemplateTypes == { "steering", "requirements", UnknownName }

\* template_name arguments
TemplateNameArgs == { "", "product", "requirements", UnknownName }

\* template_get_handler: the loader is built for the default language.
\* Both loaders end in a built-in default, so content is never None and
\* the "not found" return is not reached.
template_get_result(td, template_name, template_type) ==
  IF template_name = "" THEN Raise("ValueError")
  ELSE [success |-> TRUE, template_name |-> template_name,
        template_type |-> template_type,
        content |-> IF template_type = "steering"
                    THEN load_steering_template(td, "en", template_name)
                    ELSE TemplateLoader_load_spec_template(td, "en", template_name,
                                                           template_type)]

template_get_handler(template_name, template_type) ==
  /\ last' = Call("template_get",
                  [template_name |-> template_name, template_type |-> template_type],
                  template_get_result(templates, template_name, template_type))
  /\ prev' = Summary(last)
  /\ UNCHANGED <<specs, steering, templates, now, inflight, env>>

\* TemplateLoader(language=language).load_steering_template(template_name)
\* or .load_spec_template(template_name, template_name)
load_template(language, category, template_name) ==
  /\ last' = Call("load_template",
                  [language |-> language, category |-> category,
                   template_name |-> template_name],
                  [content |-> IF category = SteeringCategory
                               THEN load_steering_template(templates, language, template_name)
                               ELSE TemplateLoader_load_spec_template(
                                      templates, language, template_name, template_name)])
  /\ prev' = Summary(last)
  /\ UNCHANGED <<specs, steering, templates, now, inflight, env>>

(***************************************************************************)
(* The tool catalog (tools/*.py, tools/registry.py) and the project        *)
(* directory each handler works in.                                        *)
(***************************************************************************)
\* the tools each module registers when it is imported
ModuleTools ==
  [steering |-> { "steering_init", "steering_status", "steering_read", "steering_update" },
   specification |-> { "spec_init", "spec_requirements", "spec_design", "spec_tasks",
                       "spec_status" },
   validation |-> { "validate_gap", "validate_design", "validate_impl" },
   templates |-> { "template_list", "template_get", "template_render" }]

Catalog == UNION { ModuleTools[m] : m \in DOMAIN ModuleTools }

\* the first statements of a handler: the steering tools resolve
\* project_path with get_project_path_from_args, every other tool takes
\* project_dir, "." by default
project_root_of(tool, project_arg, e) ==
  IF tool \in ModuleTools.steering THEN get_project_path_from_args(project_arg, e)
  ELSE project_dir_from_args(project_arg, e)

\* a tool is called and resolves the project directory it works in
resolve_project(tool, project_arg) ==
  /\ last' = Call(tool, [project_dir |-> project_arg],
                  [project_root |-> project_root_of(tool, project_arg, env)])
  /\ prev' = Summary(last)
  /\ UNCHANGED <<specs, steering, templates, now, inflight, env>>

(***************************************************************************)
(* The registry after start-up and the server's dispatch                   *)
(* (tools/registry.py, server.py).                                         *)
(***************************************************************************)
\* the tool modules tools/registry.py imports; nothing else imports one
ImportedModules == { "steering", "specification", "validation" }

\* _TOOL_HANDLERS once the server has imported the registry
_TOOL_HANDLERS == UNION { ModuleTools[m] : m \in ImportedModules }

\* get_tool_handler: the handler registered under a name, or None
get_tool_handler(name) == IF name \in _TOOL_HANDLERS THEN name ELSE None

UnknownTool == [raised |-> "ValueError", message |-> "Unknown tool"]

\* the feature the server's callers work on
ServerNames == { <<"b", "-", "c">> }

\* await handler(arguments) for the handler of a registered tool
Handle(handler) ==
  \/ handler = "spec_init" /\ \E n \in ServerNames : spec_init_handler(n, <<"d">>)
  \/ handler = "spec_requirements"
       /\ \E n \in ServerNames, a \in BOOLEAN : spec_requirements_handler(n, a)
  \/ handler = "spec_design"
       /\ \E n \in ServerNames, a \in BOOLEAN : spec_design_handler(n, a)
  \/ handler = "spec_tasks" /\ \E n \in ServerNames, a \in BOOLEAN : spec_tasks_handler(n, a)
  \/ handler = "spec_status" /\ \E n \in ServerNames : spec_status_handler(n)
  \/ handler = "validate_gap"
       /\ \E n \in ServerNames, sd \in BOOLEAN : validate_gap_handler(n, sd, sd)
  \/ handler = "validate_design" /\ \E n \in ServerNames : validate_design_handler(n)
  \/ handler = "validate_impl"
       /\ \E n \in ServerNames, sd \in BOOLEAN : validate_impl_handler(n, sd, sd)
  \/ handler = "steering_init" /\ steering_init_handler("en")
  \/ handler = "steering_status" /\ steering_status_handler
  \/ handler = "steering_read" /\ \E f \in SteeringFileNames : steering_read_handler(f)
  \/ handler = "steering_update"
       /\ \E f \in SteeringFileNames, c \in SteeringContents : steering_update_handler(f, c)

\* call_tool: an unknown name raises, a known one runs its handler
call_tool(name) ==
  \/ /\ get_tool_handler(name) = None
     /\ last' = Call(name, [project_dir |-> Omitted], UnknownTool)
     /\ prev' = Summary(last)
     /\ UNCHANGED <<specs, steering, templates, now, inflight, env>>
  \/ /\ get_tool_handler(name) # None
     /\ Handle(get_tool_handler(name))

(***************************************************************************)
(* The clock.                                                              *)
(***************************************************************************)
Tick ==
  /\ now < MaxClock
  /\ now' = now + 1
  /\ UNCHANGED <<specs, steering, templates, last, prev, inflight, env>>

(***************************************************************************)
(* I/O faults: write_text raises OSError.  A failed write leaves the file  *)
(* as it was or cut short.                                                 *)
(***************************************************************************)
PartialFile == [kind |-> "partial"]

\* generate_{x} when the write of the artifact file raises
generate_artifact_fault(x, feature_name, auto_approve) ==
  /\ Truthy(feature_name)
  /\ Succeeded(GenerateResult(x, specs, steering, templates, feature_name, auto_approve))
  /\ \E f \in { specs[_get_spec_dir(feature_name)].files[x], PartialFile } :
        specs' = WriteArtifact(specs, feature_name, x, f)
  /\ last' = Call(x, [feature_name |-> feature_name, auto_approve |-> auto_approve],
                  Raise("OSError"))
  /\ prev' = Summary(last)
  /\ UNCHANGED <<steering, templates, now, inflight, env>>

\* generate_{x} when the write of metadata.json in _save_metadata raises:
\* the artifact file has been written already
generate_metadata_fault(x, feature_name, auto_approve) ==
  /\ Truthy(feature_name)
  /\ Succeeded(GenerateResult(x, specs, steering, templates, feature_name, auto_approve))
  /\ LET m == _load_metadata(specs, feature_name)
         written == WriteArtifact(specs, feature_name, x, Rendered(x, m, templates, now))
     IN \E f \in { specs[_get_spec_dir(m.feature_name)].metadata, PartialFile } :
          specs' = [written EXCEPT ![_get_spec_dir(m.feature_name)].metadata = f]
  /\ last' = Call(x, [feature_name |-> feature_name, auto_approve |-> auto_approve],
                  Raise("OSError"))
  /\ prev' = Summary(last)
  /\ UNCHANGED <<steering, templates, now, inflight, env>>

(***************************************************************************)
(* Generation calls of two server processes on one project directory.  No  *)
(* lock is taken and nothing is checked again between the read of          *)
(* metadata.json and its write, so the steps of two calls can interleave:  *)
(* the read with the checks and the rendering, the write of the artifact,  *)
(* the write of metadata.json.                                             *)
(***************************************************************************)
\* metadata re-read from disk before it is updated and saved
SavedMetadata_Reread(c, fs) ==
  UpdateMetadata(c.x, _load_metadata(fs, c.feature_name), c.auto_approve)

\* "metadata.current_phase = ...; approved_phases.append(...)" on the
\* object that _load_metadata returned at the start of the call
SavedMetadata(c, fs) ==
  UpdateMetadata(c.x, ParseMetadata(c.pre), c.auto_approve)

\* generate_{x} up to the rendered content, for a call that passes every
\* check
begin_generate(p, x, feature_name, auto_approve) ==
  /\ inflight.calls[p].pc = "idle"
  /\ Truthy(feature_name)
  /\ Succeeded(GenerateResult(x, specs, steering, templates, feature_name, auto_approve))
  /\ inflight' =
       [inflight EXCEPT !.calls[p] =
          [pc |-> "loaded", x |-> x, feature_name |-> feature_name,
           auto_approve |-> auto_approve,
           pre |-> specs[_get_spec_dir(feature_name)].metadata,
           content |-> Rendered(x, _load_metadata(specs, feature_name), templates, now)]]
  /\ UNCHANGED <<specs, steering, templates, now, last, prev, env>>

\* "{x}_file.write_text(content)"
write_artifact(p) ==
  LET c == inflight.calls[p] IN
  /\ c.pc = "loaded"
  /\ specs' = WriteArtifact(specs, c.feature_name, c.x, c.content)
  /\ inflight' = [inflight EXCEPT !.calls[p].pc = "written",
                                  !.last_artifact = c.x]
  /\ UNCHANGED <<steering, templates, now, last, prev, env>>

\* the metadata update, _save_metadata and the return
save_metadata(p) ==
  LET c == inflight.calls[p] IN
  /\ c.pc = "written"
  /\ specs' = _save_metadata(specs, SavedMetadata(c, specs), now)
  /\ inflight' = [inflight EXCEPT !.calls[p] = [pc |-> "idle"]]
  /\ last' = [op |-> c.x,
              args |-> [feature_name |-> c.feature_name,
                        auto_approve |-> c.auto_approve],
              out |-> [success |-> TRUE, feature_name |-> c.feature_name,
                       file |-> << _get_spec_dir(c.feature_name), c.x >>,
                       current_phase |-> PhaseValue[PhaseOf(c.x)],
                       auto_approved |-> c.auto_approve],
              pre |-> c.pre]
  /\ prev' = Summary(last)
  /\ UNCHANGED <<steering, templates, now, env>>

(***************************************************************************)
(* Initial state: an empty project; the bundled template directory is one  *)
(* of TemplateDirs and does not change.                                    *)
(***************************************************************************)
\* no template file at all: the built-in defaults are used
NoTemplates == [f \in TemplateFiles |-> AbsentFile]

\* every spec type has a {name}.en.md with placeholders
EnTemplates ==
  [f \in TemplateFiles |-> IF f[2] = "en" THEN TextFile(VarsText) ELSE AbsentFile]

\* as EnTemplates, but the {name}.en.md of x holds body, and x has an
\* unsuffixed {name}.md as well
OneBad(x, body) ==
  [f \in TemplateFiles |->
     IF f[1] = x THEN (IF f[2] = "en" THEN TextFile(body) ELSE TextFile(PlainText))
     ELSE IF f[2] = "en" THEN TextFile(VarsText) ELSE AbsentFile]

TemplateDirs ==
  { NoTemplates, EnTemplates }
    \cup { OneBad(x, body) : x \in ArtifactNames, body \in { EmptyText, MalformedText } }

NoSteering == [exists |-> FALSE, files |-> [f \in SteeringStems |-> AbsentFile]]

\* the server processes that can run a generation call at the same time
Procs == { 1, 2 }

\* no generation call is between its first read and its last write
NoneInFlight ==
  [calls |-> [p \in Procs |-> [pc |-> "idle"]], last_artifact |-> None]

Init ==
  /\ specs = [d \in DirNames |-> NoDir]
  /\ steering = NoSteering
  /\ templates \in { NoTemplates, EnTemplates }
  /\ now = 0
  /\ last = NoCall
  /\ prev = NoCall
  /\ inflight = NoneInFlight
  /\ env = AtProjectRoot

\* the tools of the specification workflow, called one at a time
Workflow ==
  \/ \E n \in Names, d \in Descriptions : spec_init_handler(n, d)
  \/ \E n \in Names, a \in BOOLEAN : spec_requirements_handler(n, a)
  \/ \E n \in Names, a \in BOOLEAN : spec_design_handler(n, a)
  \/ \E n \in Names, a \in BOOLEAN : spec_tasks_handler(n, a)
  \/ \E n \in Names : spec_status_handler(n)

Next ==
  \/ Workflow
  \/ Tick

Spec == Init /\ [][Next]_vars

(***************************************************************************)
(* The workflow over every bundled template directory, with steering       *)
(* documents being written.                                                *)
(***************************************************************************)
TemplateInit ==
  /\ specs = [d \in DirNames |-> NoDir]
  /\ steering = NoSteering
  /\ templates \in TemplateDirs
  /\ now = 0
  /\ last = NoCall
  /\ prev = NoCall
  /\ inflight = NoneInFlight
  /\ env = AtProjectRoot

TemplateNext ==
  \/ Workflow
  \/ \E f \in SteeringFileNames, c \in SteeringContents : steering_update_handler(f, c)

TemplateSpec == TemplateInit /\ [][TemplateNext]_vars

(***************************************************************************)
(* The workflow when writes can fail.                                      *)
(***************************************************************************)
FaultNext ==
  \/ Workflow
  \/ \E x \in ArtifactNames, n \in Names, a \in BOOLEAN :
        generate_artifact_fault(x, n, a)
  \/ \E x \in ArtifactNames, n \in Names, a \in BOOLEAN :
        generate_metadata_fault(x, n, a)

FaultSpec == Init /\ [][FaultNext]_vars

(***************************************************************************)
(* Every tool of the specification and validation workflows, with blank    *)
(* arguments among the inputs.                                             *)
(***************************************************************************)
BlankDescriptions == { <<>>, << " " >> }

ToolDescriptions == { << "d" >> } \cup BlankDescriptions

ToolNext ==
  \/ \E n \in RawNames, d \in ToolDescriptions :
        spec_init_handler(n, d)
  \/ \E n \in RawNames, a \in BOOLEAN : spec_requirements_handler(n, a)
  \/ \E n \in RawNames, a \in BOOLEAN : spec_design_handler(n, a)
  \/ \E n \in RawNames, a \in BOOLEAN : spec_tasks_handler(n, a)
  \/ \E n \in RawNames : spec_status_handler(n)
  \/ \E n \in RawNames, src_dir \in BOOLEAN, tests_dir \in BOOLEAN :
        validate_gap_handler(n, src_dir, tests_dir)
  \/ \E n \in RawNames : validate_design_handler(n)
  \/ \E n \in RawNames, src_dir \in BOOLEAN, tests_dir \in BOOLEAN :
        validate_impl_handler(n, src_dir, tests_dir)

ToolSpec == Init /\ [][ToolNext]_vars

(***************************************************************************)
(* Two processes generating at the same time.                              *)
(***************************************************************************)
\* the feature the two processes work on, under the name spec_init stored
RaceNames == { << "b", "-", "c" >> }

RaceInit ==
  /\ specs = [d \in DirNames |-> NoDir]
  /\ steering = NoSteering
  /\ templates = EnTemplates
  /\ now = 0
  /\ last = NoCall
  /\ prev = NoCall
  /\ inflight = NoneInFlight
  /\ env = AtProjectRoot

RaceNext ==
  \/ \E n \in RaceNames : spec_init_handler(n, << "d" >>)
  \/ \E p \in Procs, x \in ArtifactNames, n \in RaceNames, a \in BOOLEAN :
        begin_generate(p, x, n, a)
  \/ \E p \in Procs : write_artifact(p)
  \/ \E p \in Procs : save_metadata(p)

RaceSpec == RaceInit /\ [][RaceNext]_vars

(***************************************************************************)
(* The steering tools over the bundled steering templates.                 *)
(***************************************************************************)
\* no bundled file: the built-in defaults are used
NoBundled == [f \in BundledFiles |-> AbsentFile]

\* the body of a bundled file
BundledText(f) ==
  IF f[1] = SteeringCategory THEN << "t", f[2], f[3] >>
  ELSE f[2] \o "." \o f[3] \o ".md"

\* every steering document has a {name}.en.md
EnSteering ==
  [f \in BundledFiles |->
     IF f[1] = SteeringCategory /\ f[2] \in SteeringStems /\ f[3] = "en"
     THEN TextFile(BundledText(f)) ELSE AbsentFile]

SteeringInit ==
  /\ specs = [d \in DirNames |-> NoDir]
  /\ steering = NoSteering
  /\ templates \in { NoBundled, EnSteering }
  /\ now = 0
  /\ last = NoCall
  /\ prev = NoCall
  /\ inflight = NoneInFlight
  /\ env = AtProjectRoot

SteeringNext ==
  \/ \E l \in LoaderLanguages : steering_init_handler(l)
  \/ \E f \in SteeringFileNames, c \in SteeringContents : steering_update_handler(f, c)
  \/ steering_status_handler
  \/ \E f \in SteeringFileNames : steering_read_handler(f)

SteeringSpec == SteeringInit /\ [][SteeringNext]_vars

(***************************************************************************)
(* Template resolution over every combination of bundled files of one      *)
(* steering document and one spec type.                                    *)
(***************************************************************************)
VariedFiles ==
  { <<SteeringCategory, "product">>, <<SpecCategory, "requirements">> } \X LoaderSuffixes

ResolveDirs ==
  { [f \in BundledFiles |->
       IF <<f[1], f[2], f[3]>> \in { <<v[1][1], v[1][2], v[2]>> : v \in present }
       THEN TextFile(BundledText(f)) ELSE AbsentFile] : present \in SUBSET VariedFiles }

ResolveInit ==
  /\ specs = [d \in DirNames |-> NoDir]
  /\ steering = NoSteering
  /\ templates \in ResolveDirs
  /\ now = 0
  /\ last = NoCall
  /\ prev = NoCall
  /\ inflight = NoneInFlight
  /\ env = AtProjectRoot

ResolveNext ==
  \/ \E l \in LoaderLanguages, c \in { SteeringCategory, SpecCategory },
        n \in { "product", "requirements", UnknownName } : load_template(l, c, n)
  \/ \E n \in TemplateNameArgs, t \in TemplateTypes : template_get_handler(n, t)

ResolveSpec == ResolveInit /\ [][ResolveNext]_vars

(***************************************************************************)
(* The tools called from any working directory, with project indicators    *)
(* in any of the directories.                                              *)
(***************************************************************************)
RootInit ==
  /\ specs = [d \in DirNames |-> NoDir]
  /\ steering = NoSteering
  /\ templates = NoTemplates
  /\ now = 0
  /\ last = NoCall
  /\ prev = NoCall
  /\ inflight = NoneInFlight
  /\ env \in [cwd : Dirs, marked : SUBSET Dirs]

RootNext ==
  \E t \in Catalog, a \in { Omitted, <<"p">> } : resolve_project(t, a)

RootSpec == RootInit /\ [][RootNext]_vars

(***************************************************************************)
(* The server: every tool of the catalog called by name.                   *)
(***************************************************************************)
\* the bundled template directory without any file, as the workflow and as
\* the steering tools look it up
NoTemplateFiles == [f \in TemplateFiles \cup BundledFiles |-> AbsentFile]

ServerInit ==
  /\ specs = [d \in DirNames |-> NoDir]
  /\ steering = NoSteering
  /\ templates = NoTemplateFiles
  /\ now = 0
  /\ last = NoCall
  /\ prev = NoCall
  /\ inflight = NoneInFlight
  /\ env = AtProjectRoot

ServerNext == \E name \in Catalog : call_tool(name)

ServerSpec == ServerInit /\ [][ServerNext]_vars

(***************************************************************************)
(* The feature tools called with a plain feature name and with a name that *)
(* holds a path separator.                                                 *)
(***************************************************************************)
IsolationNames == { <<"b", "-", "c">>, <<".", "/", "b", "-", "c">> }

IsolationNext ==
  \/ \E n \in IsolationNames : spec_init_handler(n, <<"d">>)
  \/ \E n \in IsolationNames, a \in BOOLEAN : spec_requirements_handler(n, a)
  \/ \E n \in IsolationNames, a \in BOOLEAN : spec_design_handler(n, a)
  \/ \E n \in IsolationNames, a \in BOOLEAN : spec_tasks_handler(n, a)
  \/ \E n \in IsolationNames : spec_status_handler(n)
  \/ \E n \in IsolationNames : validate_gap_handler(n, TRUE, TRUE)
  \/ \E n \in IsolationNames : validate_design_handler(n)
  \/ \E n \in IsolationNames : validate_impl_handler(n, TRUE, TRUE)

IsolationSpec == RaceInit /\ [][IsolationNext]_vars

(***************************************************************************)
(* Properties.                                                             *)
(***************************************************************************)
\* this step is a call of tool op: every handler records its call in last
\* and leaves the clock alone, and Tick leaves last alone
Calls(op) == now' = now /\ last'.op = op

\* the feature name and the auto_approve flag of the call made in this step
n1 == last'.args.feature_name

a1 == last'.args.auto_approve

\* the phase immediately before the one x generates
PhaseBefore(x) == PhaseOf(x) - 1

\* the feature addressed by name n has readable metadata
Loads(n) == LoadError(specs, n) = None

Meta(n) == _load_metadata(specs, n)

\* metadata.json as the last call found it, parsed
PreMeta == ParseMetadata(last.pre)

HadMeta == last.op # "none" /\ last.pre # AbsentFile /\ last.pre.kind = "json"

\* C1. Approval gate: generate_design (generate_tasks) called without
\* auto_approve while the feature is in phase Requirements (Design) and that
\* phase is not approved fails with the approval-required error and leaves
\* metadata.json and the artifact file it would write as they were.
C1_ApprovalGate ==
  [][\A x \in { "design", "tasks" } :
       ( /\ Calls(x)
         /\ ~a1
         /\ Loads(n1)
         /\ Meta(n1).current_phase = PhaseBefore(x)
         /\ ~InList(PhaseBefore(x), Meta(n1).approved_phases) )
       => /\ Failed(last'.out)
          /\ last'.out.error = ApprovalErrorText(x)
          /\ specs'[n1].metadata = specs[n1].metadata
          /\ specs'[n1].files[x] = specs[n1].files[x]]_vars

\* a tasks generation blocked by the gate while a tasks.md of an earlier
\* round exists
C1_Witness ==
  /\ last.op = "tasks"
  /\ ~last.args.auto_approve
  /\ Failed(last.out)
  /\ last.out.error = ApprovalErrorText("tasks")
  /\ last.pre.current_phase = "design"
  /\ "design" \notin AsSet(last.pre.approved_phases)
  /\ Exists(specs[last.args.feature_name].files["tasks"])

\* C2. Phase window: generate(X) called while current_phase is neither the
\* phase before X nor X returns success = false with the phase error that
\* states the current phase, whatever auto_approve is, and changes no file.
C2_PhaseWindow ==
  [][\A x \in ArtifactNames :
       ( /\ Calls(x)
         /\ Loads(n1)
         /\ Meta(n1).current_phase \notin { PhaseBefore(x), PhaseOf(x) } )
       => /\ Failed(last'.out)
          /\ last'.out.error = PhaseErrorText(x, Meta(n1))
          /\ last'.out.current_phase = PhaseValue[Meta(n1).current_phase]
          /\ specs' = specs]_vars

\* generate_requirements refused in phase tasks, under auto_approve
C2_Witness ==
  /\ last.op = "requirements"
  /\ last.args.auto_approve
  /\ Failed(last.out)
  /\ last.pre.current_phase = "tasks"
  /\ last.out.error = << "Cannot generate", "requirements", "in phase:", "tasks" >>

\* C3 as claimed: every generate_design / generate_tasks that succeeds
\* without auto_approve found the phase before approved, also when it
\* regenerates in its own phase.
C3_AnySuccessHadApproval ==
  ( /\ last.op \in { "design", "tasks" }
    /\ Succeeded(last.out)
    /\ ~last.args.auto_approve )
  => InList(PhaseBefore(last.op), PreMeta.approved_phases)

\* C3. A generate_design (generate_tasks) that succeeds without
\* auto_approve while the feature is in phase Requirements (Design) found
\* that phase in approved_phases.
C3_EntryHadApproval ==
  ( /\ last.op \in { "design", "tasks" }
    /\ Succeeded(last.out)
    /\ ~last.args.auto_approve
    /\ PreMeta.current_phase = PhaseBefore(last.op) )
  => InList(PhaseBefore(last.op), PreMeta.approved_phases)

\* tasks generated without auto_approve out of an approved Design phase
C3_Witness ==
  /\ last.op = "tasks"
  /\ Succeeded(last.out)
  /\ ~last.args.auto_approve
  /\ PreMeta.current_phase = DESIGN
  /\ InList(DESIGN, PreMeta.approved_phases)
  /\ Meta(last.args.feature_name).current_phase = TASKS

\* C4. Gate bypass: generate_design (generate_tasks) called with
\* auto_approve while the feature is in phase Requirements (Design) and that
\* phase is not approved succeeds, sets current_phase to Design (Tasks) and
\* adds exactly that phase to approved_phases; the phase before stays
\* unapproved.
C4_GateBypass ==
  [][\A x \in { "design", "tasks" } :
       ( /\ Calls(x)
         /\ a1
         /\ Loads(n1)
         /\ Meta(n1).current_phase = PhaseBefore(x)
         /\ ~InList(PhaseBefore(x), Meta(n1).approved_phases) )
       => /\ Succeeded(last'.out)
          /\ last'.out.current_phase = PhaseValue[PhaseOf(x)]
          /\ ParseMetadata(specs'[n1].metadata).current_phase = PhaseOf(x)
          /\ ParseMetadata(specs'[n1].metadata).approved_phases
               = Append(Meta(n1).approved_phases, PhaseOf(x))
          /\ ~InList(PhaseBefore(x), ParseMetadata(specs'[n1].metadata).approved_phases)]_vars

\* design generated under auto_approve out of an unapproved Requirements
\* phase: Design alone is approved afterwards
C4_Witness ==
  /\ last.op = "design"
  /\ last.args.auto_approve
  /\ Succeeded(last.out)
  /\ PreMeta.current_phase = REQUIREMENTS
  /\ PreMeta.approved_phases = << >>
  /\ Meta(last.args.feature_name).current_phase = DESIGN
  /\ Meta(last.args.feature_name).approved_phases = << DESIGN >>

\* C5. Monotonicity: no tool call moves the persisted current_phase of a
\* feature to an earlier phase or removes a member of its approved_phases.
C5_Monotonic ==
  [][\A d \in DirNames :
       (specs[d].metadata # specs'[d].metadata /\ Exists(specs[d].metadata))
       => /\ Exists(specs'[d].metadata)
          /\ ParseMetadata(specs'[d].metadata).current_phase
               >= ParseMetadata(specs[d].metadata).current_phase
          /\ AsSet(ParseMetadata(specs[d].metadata).approved_phases)
               \subseteq AsSet(ParseMetadata(specs'[d].metadata).approved_phases)]_vars

\* C6. spec_init on a feature whose metadata exists leaves its
\* current_phase, approved_phases and created_at as they were.
C6_InitKeepsState ==
  [][( /\ Calls("spec_init")
       /\ validate_feature_name(n1) # InvalidName
       /\ Exists(specs[validate_feature_name(n1)].metadata) )
     => LET old == ParseMetadata(specs[validate_feature_name(n1)].metadata)
            new == ParseMetadata(specs'[validate_feature_name(n1)].metadata)
        IN /\ new.current_phase = old.current_phase
           /\ new.approved_phases = old.approved_phases
           /\ new.created_at = old.created_at]_vars

\* C10. spec_status right after a successful spec_init with the same name
\* reports phase initialized and no artifact file.
C10_StatusAfterInit ==
  ( /\ last.op = "spec_status"
    /\ prev.op = "spec_init"
    /\ prev.feature_name = last.args.feature_name )
  => /\ "current_phase" \in DOMAIN last.out
     /\ last.out.current_phase = PhaseValue[INITIALIZED]
     /\ \A x \in ArtifactNames : ~last.out.files[x]

\* C7. Write-last discipline: a generation call that does not succeed,
\* whichever step fails, leaves metadata.json and the artifact files as
\* they were.
C7_FailureChangesNothing ==
  [][\A x \in ArtifactNames :
       (Calls(x) /\ ~Succeeded(last'.out)) => specs' = specs]_vars

\* the call gets as far as loading the template of x: metadata loads, the
\* phase is in the window, the gate lets it pass and, for requirements, the
\* steering documents load
ReachesTemplate(x, n, a) ==
  /\ Loads(n)
  /\ Meta(n).current_phase \in { PhaseBefore(x), PhaseOf(x) }
  /\ \/ x = "requirements"
     \/ a
     \/ Meta(n).current_phase = PhaseOf(x)
     \/ InList(PhaseBefore(x), Meta(n).approved_phases)
  /\ (x = "requirements" => ~ListSteeringRaises(steering))

\* C8. Template failure: when the template loaded for x is missing (the
\* loader yields no text) or does not render, generate(x) returns
\* success = false with the template-not-found error in the first case and
\* the rendering-failed error in the second, raises nothing, and leaves
\* every file, metadata.json included, as it was.
C8_TemplateFailure ==
  [][\A x \in ArtifactNames :
       ( /\ Calls(x)
         /\ ReachesTemplate(x, n1, a1)
         /\ \/ load_spec_template(templates, x) = EmptyText
            \/ load_spec_template(templates, x) = MalformedText )
       => /\ Failed(last'.out)
          /\ last'.out.error =
               IF load_spec_template(templates, x) = EmptyText
               THEN TemplateNotFoundText(x) ELSE RenderFailedText
          /\ TemplateNotFoundText(x) # RenderFailedText
          /\ specs' = specs]_vars

\* generate_tasks stopped by a tasks template that does not render, with
\* tasks.md absent and the feature still in phase design
C8_Witness ==
  /\ last.op = "tasks"
  /\ Failed(last.out)
  /\ last.out.error = RenderFailedText
  /\ PreMeta.current_phase = DESIGN
  /\ Meta(last.args.feature_name).current_phase = DESIGN
  /\ ~Exists(specs[last.args.feature_name].files["tasks"])

\* the bundled requirements template resolves to a text that renders
RequirementsTemplateRenders ==
  /\ load_spec_template(templates, "requirements") # EmptyText
  /\ ~RenderFails(load_spec_template(templates, "requirements"))

\* C9. Idempotent regeneration: the first generate_requirements after
\* spec_init, called without auto_approve, succeeds, and so does a second
\* one right after it; then current_phase is requirements, approved_phases
\* is as before, and requirements.md holds what the second call rendered.
C9_Regeneration ==
  [][( /\ RequirementsTemplateRenders
       /\ Calls("requirements")
       /\ ~a1
       /\ Loads(n1) )
     => /\ ( /\ last.op = "spec_init"
             /\ Succeeded(last.out)
             /\ last.out.feature_name = n1 )
           => Succeeded(last'.out)
        /\ ( /\ last.op = "requirements"
             /\ last.args = last'.args
             /\ Succeeded(last.out)
             /\ prev.op = "spec_init" )
           => /\ Succeeded(last'.out)
              /\ ParseMetadata(specs'[n1].metadata).current_phase = REQUIREMENTS
              /\ ParseMetadata(specs'[n1].metadata).approved_phases
                   = PreMeta.approved_phases
              /\ specs'[n1].files["requirements"]
                   = Rendered("requirements", Meta(n1), templates, now)]_vars

\* the tools that read a feature through SpecWorkflow
ReadingTools == { "requirements", "design", "tasks", "spec_status" }

\* C11. One normalize for every operation: spec_init stores the feature
\* under normalize(name), and a later generate or status call given any
\* name with that normalization finds the metadata.json of that feature.
C11_OneNormalize ==
  [][/\ (Calls("spec_init") /\ Succeeded(last'.out))
         => last'.out.feature_name = normalize_feature_name(n1)
     /\ \A op \in ReadingTools :
          ( /\ Calls(op)
            /\ Truthy(n1)
            /\ normalize_feature_name(n1) \in DirNames )
          => last'.pre = specs[normalize_feature_name(n1)].metadata]_vars

\* the tools that raise when metadata.json is missing
RaisingTools ==
  { "requirements", "design", "tasks",
    "validate_gap", "validate_design", "validate_impl" }

C13_BlankRejected ==
  [][( /\ Calls("spec_init")
       /\ \/ Strip(n1) = <<>>
          \/ Strip(last'.args.description) = <<>> )
     => /\ ~Succeeded(last'.out)
        /\ specs' = specs]_vars

\* C14. spec_status is read-only and exact: for a feature whose
\* metadata.json loads it changes no file, raises nothing in any phase, and
\* returns the persisted current_phase and approved_phases and, for each of
\* requirements.md, design.md and tasks.md, a flag that is true exactly when
\* the file exists.
C14_StatusExact ==
  [][( /\ Calls("spec_status")
       /\ Truthy(n1)
       /\ Loads(n1) )
     => /\ specs' = specs
        /\ steering' = steering
        /\ ~Raised(last'.out)
        /\ "error" \notin DOMAIN last'.out
        /\ last'.out.current_phase = PhaseValue[Meta(n1).current_phase]
        /\ Len(last'.out.approved_phases) = Len(Meta(n1).approved_phases)
        /\ \A i \in 1..Len(Meta(n1).approved_phases) :
              last'.out.approved_phases[i] = PhaseValue[Meta(n1).approved_phases[i]]
        /\ \A x \in ArtifactNames :
              last'.out.files[x] <=> (specs[n1].files[x] # AbsentFile)]_vars

\* spec_status of a feature in phase design with requirements approved:
\* requirements.md and design.md are present, tasks.md is not
C14_Witness ==
  /\ last.op = "spec_status"
  /\ "files" \in DOMAIN last.out
  /\ last.out.current_phase = "design"
  /\ last.out.approved_phases = << "requirements" >>
  /\ last.out.files["requirements"]
  /\ last.out.files["design"]
  /\ ~last.out.files["tasks"]

\* C15. One step at a time: a tool call that succeeds leaves the persisted
\* current_phase of every feature either as it was or advanced to the
\* immediately next phase.
C15_OneStep ==
  [][\A d \in DirNames :
       ( /\ LoadError(specs, d) = None
         /\ LoadError(specs', d) = None
         /\ ~Raised(last'.out)
         /\ ~Failed(last'.out) )
       => \/ _load_metadata(specs', d).current_phase = Meta(d).current_phase
          \/ _load_metadata(specs', d).current_phase = Meta(d).current_phase + 1]_vars

\* every bundled template resolves to a text that renders
AllTemplatesRender ==
  \A x \in ArtifactNames :
    /\ load_spec_template(templates, x) # EmptyText
    /\ ~RenderFails(load_spec_template(templates, x))

\* this step calls tool op with auto_approve for the feature name of the
\* call before it, which was a successful call of tool before
Follows(before, op) ==
  /\ last.op = before
  /\ Succeeded(last.out)
  /\ Calls(op)
  /\ a1
  /\ n1 = last.args.feature_name

\* C16. Progress: after spec_init, generate_requirements, generate_design
\* and generate_tasks called in this order for the same name, each with
\* auto_approve, all succeed, and after the third the feature is in phase
\* tasks with requirements.md, design.md and tasks.md present.
C16_Progress ==
  [][AllTemplatesRender =>
       /\ Follows("spec_init", "requirements") => Succeeded(last'.out)
       /\ (Follows("requirements", "design") /\ last.args.auto_approve)
            => Succeeded(last'.out)
       /\ (Follows("design", "tasks") /\ last.args.auto_approve)
            => /\ Succeeded(last'.out)
               /\ _load_metadata(specs', n1).current_phase = TASKS
               /\ \A x \in ArtifactNames : Exists(specs'[n1].files[x])]_vars

\* process p writes metadata.json in this step
Saves(p) == inflight.calls[p].pc = "written" /\ inflight'.calls[p].pc = "idle"

\* C17. Race under interleaving: when the steps of two generation calls
\* for one feature interleave, each call's write of metadata.json replaces
\* the file whole with what that call computed from the metadata it read at
\* its start, whatever was written in between: the phase it generates, and
\* the approved phases it read plus, under auto_approve, that phase.
C17_LastWriterWins ==
  [][\A p \in Procs :
       Saves(p) =>
         LET c == inflight.calls[p]
             read == ParseMetadata(c.pre)
             saved == _load_metadata(specs', c.feature_name)
         IN /\ saved.current_phase = PhaseOf(c.x)
            /\ saved.approved_phases =
                 IF c.auto_approve /\ ~InList(PhaseOf(c.x), read.approved_phases)
                 THEN Append(read.approved_phases, PhaseOf(c.x))
                 ELSE read.approved_phases
            /\ saved.feature_name = read.feature_name
            /\ saved.description = read.description
            /\ saved.created_at = read.created_at]_vars

\* a lost advance: generate_design and generate_requirements both started
\* in phase requirements; design.md was the artifact written last and
\* generate_design returned first with phase design, then
\* generate_requirements saved phase requirements over it
C17_Witness ==
  /\ \A p \in Procs : inflight.calls[p].pc = "idle"
  /\ last.op = "requirements"
  /\ Succeeded(last.out)
  /\ prev.op = "design"
  /\ inflight.last_artifact = "design"
  /\ Meta(last.args.feature_name).current_phase = REQUIREMENTS
  /\ ~InList(DESIGN, Meta(last.args.feature_name).approved_phases)
  /\ Exists(specs[last.args.feature_name].files["design"])

\* C18. Metadata round trip: for the metadata m of any feature in any
\* reachable state, _save_metadata(m) followed by
\* _load_metadata(m.feature_name) returns feature_name, description,
\* current_phase, created_at and approved_phases equal to those of m, and an
\* updated_at not earlier than that of m.
C18_RoundTrip ==
  \A d \in DirNames :
    LoadError(specs, d) = None =>
      LET m == Meta(d)
          back == _load_metadata(_save_metadata(specs, m, now), m.feature_name)
      IN /\ back.feature_name = m.feature_name
         /\ back.description = m.description
         /\ back.current_phase = m.current_phase
         /\ back.created_at = m.created_at
         /\ back.approved_phases = m.approved_phases
         /\ back.updated_at >= m.updated_at

\* a feature in phase tasks with two approved phases, last saved at an
\* earlier time than now
C18_Witness ==
  \E d \in DirNames :
    /\ LoadError(specs, d) = None
    /\ Meta(d).current_phase = TASKS
    /\ Len(Meta(d).approved_phases) >= 2
    /\ Meta(d).updated_at < now
    /\ last.op = "tasks"
    /\ Succeeded(last.out)

\* the result is a validation result that did not pass and has an
\* error-severity issue saying that a document is not found
ReportsNotFound(out, document) ==
  /\ ~Raised(out)
  /\ ~out.passed
  /\ \E i \in 1..Len(out.issues) :
       /\ out.issues[i].severity = "error"
       /\ out.issues[i].message = document \o " document not found"

\* C19. Missing documents: for a feature whose metadata loads,
\* validate_design returns passed = false with an error-severity "not
\* found" issue when design.md or requirements.md is absent, and
\* validate_impl does so when tasks.md is absent; neither raises.
C19_MissingDocument ==
  [][( /\ Truthy(n1)
       /\ Loads(n1) )
     => /\ ( /\ Calls("validate_design")
             /\ ~Exists(specs[n1].files["design"]) )
           => ReportsNotFound(last'.out, "Design")
        /\ ( /\ Calls("validate_design")
             /\ ~Exists(specs[n1].files["requirements"]) )
           => ReportsNotFound(last'.out, "Requirements")
        /\ ( /\ Calls("validate_impl")
             /\ ~Exists(specs[n1].files["tasks"]) )
           => ReportsNotFound(last'.out, "Tasks")]_vars

\* C20. Blank steering content: steering_update given empty or
\* whitespace-only content returns an error status and leaves the steering
\* directory and every steering file as they were.
C20_BlankContentRejected ==
  [][( /\ Calls("steering_update")
       /\ Strip(last'.args.content) = <<>> )
     => /\ last'.out.status = "error"
        /\ steering' = steering]_vars

\* C21. Steering status: after any sequence of steering_init and
\* steering_update calls, steering_status reports exists exactly when the
\* steering directory exists and missing_defaults as the default documents
\* (product, tech, structure, in that order) that have no file; and once
\* steering_init was called no default document is missing.
C21_SteeringStatusExact ==
  [][/\ Calls("steering_status")
        => /\ ~Raised(last'.out)
           /\ last'.out.exists = steering.exists
           /\ last'.out.missing_defaults
                = SelectSeq(DefaultTypes,
                            LAMBDA t : ~(steering.exists /\ Exists(steering.files[t])))
     /\ Calls("steering_init")
        => \A t \in SteeringStems : Exists(steering'.files[t])]_vars

\* the names with a built-in default text in a category
KnownNames(category) ==
  IF category = SteeringCategory THEN SteeringStems ELSE ArtifactNames

\* the built-in default text of a name in a category
BuiltInDefault(category, name) ==
  IF category = SteeringCategory THEN _get_default_steering_template(name)
  ELSE _get_default_spec_template(name)

\* the bundled file of a name with a suffix
Bundled(category, name, suffix) == templates[<<category, name, suffix>>]

\* C22. Template fallback: for a known template name of a category and any
\* combination of present and absent files, a loader for a language returns
\* the content of the first existing file among {name}.{language}.md,
\* {name}.en.md and {name}.md, and the built-in default text when none of
\* them exists.
C22_FallbackOrder ==
  [][( /\ Calls("load_template")
       /\ last'.args.template_name \in KnownNames(last'.args.category) )
     => LET c == last'.args.category
            n == last'.args.template_name
            l == last'.args.language IN
        last'.out.content =
          IF Exists(Bundled(c, n, l)) THEN Bundled(c, n, l).body
          ELSE IF Exists(Bundled(c, n, "en")) THEN Bundled(c, n, "en").body
          ELSE IF Exists(Bundled(c, n, "")) THEN Bundled(c, n, "").body
          ELSE BuiltInDefault(c, n)]_vars

\* the language-specific file is missing, the English and the unsuffixed
\* ones exist, and the loader returned the English one
C22_Witness ==
  /\ last.op = "load_template"
  /\ last.args.language = "ja"
  /\ last.args.category = SteeringCategory
  /\ last.args.template_name = "product"
  /\ ~Exists(Bundled(SteeringCategory, "product", "ja"))
  /\ Exists(Bundled(SteeringCategory, "product", "en"))
  /\ Exists(Bundled(SteeringCategory, "product", ""))
  /\ last.out.content = Bundled(SteeringCategory, "product", "en").body

\* C23. Unknown template: template_get for a name that has no built-in
\* default in the category of its type and no bundled file under any
\* suffix returns success = false with an error instead of content.
C23_UnknownTemplate ==
  [][( /\ Calls("template_get")
       /\ last'.args.template_name # ""
       /\ LET c == IF last'.args.template_type = "steering"
                   THEN SteeringCategory ELSE SpecCategory
              n == last'.args.template_name IN
          /\ n \notin KnownNames(c)
          /\ \A x \in LoaderSuffixes : ~Exists(Bundled(c, n, x)) )
     => Failed(last'.out)]_vars

\* the directories at or above d
AtOrAbove(d) == { SubSeq(d, 1, k) : k \in 0..Len(d) }

\* the nearest directory at or above the current one that holds a project
\* indicator, else the current directory
NearestProjectRoot(e) ==
  LET marked == { d \in AtOrAbove(e.cwd) : d \in e.marked } IN
  IF marked = {} THEN e.cwd
  ELSE CHOOSE d \in marked : \A o \in marked : Len(o) <= Len(d)

\* C24. One project root: a tool called without a project directory works
\* in the nearest directory at or above the current directory that holds a
\* project indicator, and in the current directory when there is none, so
\* that all tools called from one working directory use the same root.
C24_OneProjectRoot ==
  [][( /\ last' # last
       /\ last'.op \in Catalog
       /\ last'.args.project_dir = Omitted )
     => last'.out.project_root = NearestProjectRoot(env)]_vars

\* C25. Registration: after start-up every tool of the catalog is
\* registered, so that calling it by name runs its handler and never
\* fails as an unknown tool.
C25_CatalogRegistered ==
  [][( last' # last /\ last'.op \in Catalog ) => last'.out # UnknownTool]_vars

\* metadata.json of directory d, parsed, before and after the step
Persisted(d) == ParseMetadata(specs[d].metadata)

PersistedAfter(d) == ParseMetadata(specs'[d].metadata)

\* C26. Approval provenance: a step that changes the metadata.json of a
\* feature puts a phase into its approved_phases only when the step is a
\* successful generation of that very phase for that feature with
\* auto_approve, and it leaves a current_phase beyond Requirements only
\* with a non-empty approved_phases; so without any auto_approve call no
\* feature gets beyond Requirements.
C26_ApprovalProvenance ==
  [][\A d \in DirNames :
       ( specs'[d].metadata # specs[d].metadata /\ Exists(specs'[d].metadata) )
       => LET after == PersistedAfter(d).approved_phases
              before == IF Exists(specs[d].metadata) THEN Persisted(d).approved_phases
                        ELSE << >> IN
          /\ \A i \in DOMAIN after :
               ~InList(after[i], before)
               => /\ last'.op \in ArtifactNames
                  /\ now' = now
                  /\ PhaseOf(last'.op) = after[i]
                  /\ a1
                  /\ Succeeded(last'.out)
                  /\ _get_spec_dir(n1) = d
          /\ PersistedAfter(d).current_phase > REQUIREMENTS => after # << >>]_vars

\* tasks generated without auto_approve on the strength of the approval
\* that an earlier generate_design with auto_approve recorded
C26_Witness ==
  /\ last.op = "tasks"
  /\ ~last.args.auto_approve
  /\ Succeeded(last.out)
  /\ Meta(last.args.feature_name).current_phase = TASKS
  /\ Meta(last.args.feature_name).approved_phases = << DESIGN >>

C28_ArtifactsBehindPhase ==
  \A d \in DirNames :
    Exists(specs[d].metadata)
    => \A x \in ArtifactNames :
         PhaseOf(x) <= Persisted(d).current_phase => Exists(specs[d].files[x])

\* a feature taken to phase tasks: its three artifact files exist
C28_Witness ==
  /\ last.op = "tasks"
  /\ Succeeded(last.out)
  /\ Meta(last.args.feature_name).current_phase = TASKS
  /\ \A x \in ArtifactNames : Exists(specs[_get_spec_dir(last.args.feature_name)].files[x])
  /\ prev.op = "design"

\* C29. Steering independence: generate_requirements on a feature has the
\* outcome (result, rendered artifact, current_phase and approved_phases)
\* it has in the state that differs from the current one only in that the
\* steering directory holds nothing.
C29_SteeringIndependent ==
  [][Calls("requirements")
     => /\ last'.out = GenerateResult("requirements", specs, NoSteering, templates, n1, a1)
        /\ specs' = IF Succeeded(GenerateResult("requirements", specs, NoSteering,
                                                templates, n1, a1))
                    THEN GenerateWrite("requirements", specs, templates, now, n1, a1)
                    ELSE specs]_vars

\* directory d holds the metadata.json of the feature named B
HoldsFeature(d, B) ==
  /\ Exists(specs[d].metadata)
  /\ Persisted(d).feature_name = validate_feature_name(B)

\* C30. Feature isolation: a call of a spec or validation tool for feature
\* A leaves metadata.json and the artifact files of every existing feature
\* with a different normalized name, and the steering documents, as they
\* were.
C30_FeatureIsolation ==
  [][( last' # last /\ "feature_name" \in DOMAIN last'.args )
     => /\ \A B \in IsolationNames, d \in DirNames :
             ( /\ validate_feature_name(B) # validate_feature_name(n1)
               /\ HoldsFeature(d, B) )
             => specs'[d] = specs[d]
        /\ steering' = steering]_vars

====
